---- MODULE Spec2Model ----
(***************************************************************************)
(* Credential and token lifecycle of the auth API                          *)
(* (backend/src/controllers/authController.js).                            *)
(*                                                                         *)
(* The user store is the sequence `users` in insertion order (the order    *)
(* in which findOne meets the documents).  Each request runs in a slot;    *)
(* a handler is cut where it awaits the store: a lookup step, then a       *)
(* commit step that saves, sends the email and answers.  Time is counted   *)
(* in hours.                                                               *)
(***************************************************************************)
EXTENDS Integers, Sequences, FiniteSets, TLC

VARIABLES users, now, events, pc, req, resp, mail, concurrent, hist

vars == <<users, now, events, pc, req, resp, mail, concurrent, hist>>

\* ---------------------------------------------------------------- bounds
MaxEvents == 4
MaxBurst == 3

\* ------------------------------------------------------ program constants
VerificationTTL == 24
ResetTTL == 1
BcryptRounds == 12

\* ------------------------------------------------------------ input sets
None == "undefined"
NoDate == -1

Slots == {1, 2}
Emails == {"a@x.com", "b@x.com"}
Passwords == {"pw1", "pw2"}
Usernames == {"ada"}
CodeNumbers == {100000, 999999}
TickSteps == {ResetTTL, VerificationTTL}

Codes == {ToString(n) : n \in CodeNumbers}

\* ------------------------------------------------------------ documents
\* bcryptjs.hash(password, salt): a one-way value that records the cost and
\* answers compare only for the password it was made from.
Hash(password) == [alg |-> "bcrypt", rounds |-> BcryptRounds, of |-> password]

NoHash == [alg |-> None, rounds |-> 0, of |-> None]

Compare(password, hash) == hash.alg = "bcrypt" /\ hash.of = password

\* The hex digits of n, as Buffer.toString("hex") writes them.
HexDigit(d) == IF d < 10 THEN ToString(d)
               ELSE <<"a", "b", "c", "d", "e", "f">>[d - 9]

RECURSIVE Hex(_)
Hex(n) == IF n < 16 THEN HexDigit(n) ELSE Hex(n \div 16) \o HexDigit(n % 16)

NoDoc == [_id |-> 0, username |-> None, email |-> None, password |-> NoHash,
          isVerified |-> FALSE,
          verificationToken |-> None, verificationTokenExpiresAt |-> NoDate,
          resetPasswordToken |-> None, resetPasswordExpiresAt |-> NoDate,
          lastLogin |-> NoDate]

StringFields == {"username", "email", "verificationToken", "resetPasswordToken"}
DateFields == {"verificationTokenExpiresAt", "resetPasswordExpiresAt", "lastLogin"}

\* The paths user.toObject() writes: those that hold a value.
ToObjectFields(doc) ==
    {"_id", "password", "isVerified"}
      \cup {f \in StringFields : doc[f] # None}
      \cup {f \in DateFields : doc[f] # NoDate}

sanitizeUser(doc) == [f \in ToObjectFields(doc) \ {"password"} |-> doc[f]]

NoData == [f \in {} |-> TRUE]

\* ------------------------------------------------------------ responses
responseHandler(status, success, message, data, error, cookie, cookieUser) ==
    [status |-> status, success |-> success, message |-> message,
     data |-> data, error |-> error, cookie |-> cookie, cookieUser |-> cookieUser]

NoResp == responseHandler(0, FALSE, None, NoData, None, "none", 0)

Fail(status, message) == responseHandler(status, FALSE, message, NoData, None, "none", 0)

NoMail == [kind |-> None, to |-> None, payload |-> <<>>]

IdleReq == [op |-> "idle", path |-> None, username |-> None, email |-> None, password |-> None,
            shape |-> None, code |-> None, caller |-> 0, token |-> None,
            doc |-> NoDoc]

\* ------------------------------------------------------------ the store
Ids == 1..Len(users)

\* A filter value of undefined reaches the store as null, which matches a
\* document that lacks the path.
MatchField(stored, wanted) == stored = wanted

\* findOne answers the first matching document in store order; 0 for null.
FindOne(matching) ==
    IF matching = {} THEN 0
    ELSE CHOOSE i \in matching : \A j \in matching : i <= j

FindByEmail(email) == FindOne({i \in Ids : MatchField(users[i].email, email)})

NotExpired_Inclusive(expiresAt, t) == expiresAt # NoDate /\ expiresAt >= t

\* { $gt: Date.now() }: a document that lacks the path does not match.
NotExpired(expiresAt, t) == expiresAt # NoDate /\ expiresAt > t

FindByVerificationToken(code, t) ==
    FindOne({i \in Ids : /\ MatchField(users[i].verificationToken, code)
                         /\ NotExpired(users[i].verificationTokenExpiresAt, t)})

FindByResetToken(token, t) ==
    FindOne({i \in Ids : /\ MatchField(users[i].resetPasswordToken, token)
                         /\ NotExpired(users[i].resetPasswordExpiresAt, t)})

UserAlreadyExists_Unchecked(email) == FALSE

UserAlreadyExists(email) == FindByEmail(email) # 0

DuplicateKey_NoIndex(email) == FALSE

\* The unique index on email: an insert of a second document with the same
\* email is refused.
DuplicateKey(email) == \E i \in Ids : users[i].email = email

\* ------------------------------------------------------- bookkeeping
\* hist records what the requests have done so far; no handler reads it.
\* Per user: the code signup issued, the number of verifyEmail writes, the
\* password now in force and the one before it.  Per reset token issued: the
\* number of resetPassword writes made with it.
NoHist == [issuedCode |-> <<>>, verifies |-> <<>>, plain |-> <<>>,
           oldPlain |-> <<>>, resets |-> <<>>]

\* crypto.randomBytes(20).toString("hex"): 160 random bits never repeat, so
\* the n-th token issued is a value no earlier request has seen.
ResetTokenOf(n) == Hex(n)

IssuedTokens == {ResetTokenOf(n) : n \in 1..Len(hist.resets)}

TokenIndex(token) == CHOOSE n \in 1..Len(hist.resets) : ResetTokenOf(n) = token

\* What a client may put in the URL: a token some email carried, or one that
\* was never issued.
PresentedTokens == IssuedTokens \cup {ResetTokenOf(0)}

\* The users whose verification email carried the code; 0 stands for a
\* client that got no such email.
Recipients(code) ==
    LET got == {id \in Ids : hist.issuedCode[id] = code}
    IN IF got = {} THEN {0} ELSE got

ResetURL(token) == <<"CLIENT_URL", "/reset-password/", token>>

\* ------------------------------------------------------------- requests
\* Requests are taken one at a time unless the server runs them interleaved.
\* A response is read as soon as it is made: no step of another request, and
\* no tick of the clock, comes between an answer and its Close.
NoneUnread == \A q \in Slots : pc[q] # "done"

CanBegin(s) ==
    /\ pc[s] = "idle"
    /\ NoneUnread
    /\ concurrent \/ \A q \in Slots : pc[q] = "idle" /\ s <= q

\* The requests that go on to write and the ticks of the clock are counted,
\* and no more of them are let in than the budget allows.
Budget == IF concurrent THEN MaxBurst ELSE MaxEvents

Answer(s, r, response) ==
    /\ pc' = [pc EXCEPT ![s] = "done"]
    /\ req' = [req EXCEPT ![s] = r]
    /\ resp' = [resp EXCEPT ![s] = response]

\* The handler answers before any write.
Reply(s, r, response) ==
    /\ Answer(s, r, response)
    /\ UNCHANGED events

\* The handler has its document and awaits the write.
Await(s, r) ==
    /\ events < Budget
    /\ events' = events + 1
    /\ pc' = [pc EXCEPT ![s] = "save"]
    /\ req' = [req EXCEPT ![s] = r]
    /\ UNCHANGED resp

\* A request that lacks an input it needs: the handler uses none of the others.
Invalid(op) == [IdleReq EXCEPT !.op = op, !.shape = "missing"]

Saving(s, op) == pc[s] = "save" /\ req[s].op = op /\ NoneUnread

Caught(status, message, error, cookie, cookieUser) ==
    responseHandler(status, FALSE, message, NoData, error, cookie, cookieUser)

\* ------------------------------------------------------------ the router
\* The paths the client posts to, under /api/v1/auth, and one nobody serves.
Paths == {"/signup", "/login", "/logout", "/verify-email", "/forgot-password",
          "/reset-password/:token", "/profile"}

\* router.post(path, handler): the routes that are mounted.
router == [path \in {"/signup"} |-> "signup"]

HandlerOf(path) == IF path \in DOMAIN router THEN router[path] ELSE "notFound"

\* router.use: a request no route has taken.  The error object names the
\* path asked for (with the status and the method, here always 404 and POST).
NotFound(s) ==
    \E path \in Paths :
      /\ HandlerOf(path) = "notFound"
      /\ CanBegin(s)
      /\ Reply(s, [IdleReq EXCEPT !.op = "notFound", !.path = path],
                responseHandler(404, FALSE, "Route not found", NoData, path,
                                "none", 0))
      /\ UNCHANGED <<users, now, mail, concurrent, hist>>

\* --------------------------------------------------------------- signup
SignupFind(s) ==
    \E username \in Usernames \cup {None}, email \in Emails \cup {None},
       password \in Passwords \cup {None} :
      LET r == [IdleReq EXCEPT !.op = "signup", !.path = "/signup",
                               !.username = username,
                               !.email = email, !.password = password]
      IN /\ CanBegin(s)
         /\ HandlerOf("/signup") = "signup"
         /\ IF username = None \/ email = None \/ password = None
            THEN Reply(s, [Invalid("signup") EXCEPT !.path = "/signup"],
                       Fail(400, "All fields are required"))
            ELSE IF UserAlreadyExists(email)
            THEN Reply(s, r, Fail(400, "User already exists"))
            ELSE Await(s, r)
         /\ UNCHANGED <<users, now, mail, concurrent, hist>>

NewUser(id, r, verificationToken, t) ==
    [NoDoc EXCEPT !._id = id, !.username = r.username, !.email = r.email,
                  !.password = Hash(r.password),
                  !.verificationToken = verificationToken,
                  !.verificationTokenExpiresAt = t + VerificationTTL]

SignupSave(s) ==
    /\ Saving(s, "signup")
    /\ \E n \in CodeNumbers, sent \in BOOLEAN :
         LET r == req[s]
             verificationToken == ToString(n)
             id == Len(users) + 1
             user == NewUser(id, r, verificationToken, now)
         IN IF DuplicateKey(r.email)
            THEN /\ Answer(s, r, Caught(400, "An error occurred while creating your account",
                                        "E11000 duplicate key error", "none", 0))
                 /\ UNCHANGED <<users, mail, hist>>
            ELSE /\ users' = Append(users, user)
                 /\ hist' = [hist EXCEPT
                               !.issuedCode = Append(@, verificationToken),
                               !.verifies = Append(@, 0),
                               !.plain = Append(@, r.password),
                               !.oldPlain = Append(@, None)]
                 /\ IF sent
                    THEN /\ mail' = [mail EXCEPT ![s] =
                                       [kind |-> "verification", to |-> user.email,
                                        payload |-> <<verificationToken>>]]
                         /\ Answer(s, [r EXCEPT !.doc = user],
                                   responseHandler(201, TRUE, "User created successfully",
                                                   sanitizeUser(user), None, "jwt", id))
                    ELSE /\ UNCHANGED mail
                         /\ Answer(s, [r EXCEPT !.doc = user],
                                   Caught(400, "An error occurred while creating your account",
                                          "Error sending verification email", "jwt", id))
    /\ UNCHANGED <<now, events, concurrent>>

\* ---------------------------------------------------------------- login
NoSuchUser_Told == Fail(400, "User not found")

NoSuchUser == Fail(400, "Invalid credentials")

WrongPassword == Fail(400, "Invalid credentials")

LoginFind(s) ==
    \E email \in Emails \cup {None}, password \in Passwords \cup {None} :
      LET r == [IdleReq EXCEPT !.op = "login", !.email = email,
                               !.password = password]
          id == FindByEmail(email)
      IN /\ CanBegin(s)
         /\ IF email = None \/ password = None
            THEN Reply(s, Invalid("login"), Fail(400, "All fields are required"))
            ELSE IF id = 0
            THEN Reply(s, r, NoSuchUser)
            ELSE IF ~Compare(password, users[id].password)
            THEN Reply(s, r, WrongPassword)
            ELSE Await(s, [r EXCEPT !.doc = [users[id] EXCEPT !.lastLogin = now]])
         /\ UNCHANGED <<users, now, mail, concurrent, hist>>

\* The cookie is set before the save is awaited; the store may refuse the
\* write, and the catch block then answers on the same res.
LoginSave(s) ==
    /\ Saving(s, "login")
    /\ \E saved \in BOOLEAN :
         LET user == req[s].doc
         IN IF saved
            THEN /\ users' = [users EXCEPT ![user._id].lastLogin = user.lastLogin]
                 /\ Answer(s, req[s],
                           responseHandler(200, TRUE, "Logged in successfully",
                                           sanitizeUser(user), None, "jwt", user._id))
            ELSE /\ UNCHANGED users
                 /\ Answer(s, req[s],
                           Caught(400, "An error occurred while login process",
                                  "save failed", "jwt", user._id))
    /\ UNCHANGED <<now, events, mail, concurrent, hist>>

\* --------------------------------------------------------------- logout
Logout(s) ==
    /\ CanBegin(s)
    /\ Reply(s, [IdleReq EXCEPT !.op = "logout"],
              responseHandler(200, TRUE, "Logged out successfully", NoData, None,
                              "cleared", 0))
    /\ UNCHANGED <<users, now, mail, concurrent, hist>>

\* ---------------------------------------------------------- verifyEmail
\* The handler reads req.body.verificationCode.verificationCode: the code sits
\* one level down ("nested", what the client sends), the body holds the bare
\* string ("flat": the inner read gives undefined), or holds nothing
\* ("missing": the inner read throws).  The code is all the request says:
\* caller, the user who sends the code her email carried, is known to the
\* client only.
BodyShapes == {"nested", "flat", "missing"}

Verified_KeepsToken(user) == [user EXCEPT !.isVerified = TRUE]

Verified_KeepsExpiry(user) ==
    [user EXCEPT !.isVerified = TRUE, !.verificationToken = None]

Verified_NotMarked(user) == user

Verified(user) ==
    [user EXCEPT !.isVerified = TRUE,
                 !.verificationToken = None,
                 !.verificationTokenExpiresAt = NoDate]

VerifyFind(s) ==
    \E shape \in BodyShapes, code \in Codes :
     \E caller \in Recipients(code) :
      LET r == [IdleReq EXCEPT !.op = "verifyEmail", !.shape = shape,
                               !.code = code, !.caller = caller]
          wanted == IF shape = "nested" THEN code ELSE None
          id == FindByVerificationToken(wanted, now)
      IN /\ CanBegin(s)
         /\ IF shape = "missing"
            THEN Reply(s, Invalid("verifyEmail"),
                        Caught(500, "An error occurred while verify email process",
                               "Cannot read properties of undefined", "none", 0))
            ELSE IF id = 0
            THEN Reply(s, r, Fail(400, "Invalid or expired verification code"))
            ELSE Await(s, [r EXCEPT !.doc = Verified(users[id])])
         /\ UNCHANGED <<users, now, mail, concurrent, hist>>

VerifySave(s) ==
    /\ Saving(s, "verifyEmail")
    /\ \E sent \in BOOLEAN :
         LET user == req[s].doc
         IN /\ users' = [users EXCEPT
                           ![user._id].isVerified = user.isVerified,
                           ![user._id].verificationToken = user.verificationToken,
                           ![user._id].verificationTokenExpiresAt =
                               user.verificationTokenExpiresAt]
            /\ hist' = [hist EXCEPT !.verifies[user._id] = @ + 1]
            /\ IF sent
               THEN /\ mail' = [mail EXCEPT ![s] =
                                  [kind |-> "welcome", to |-> user.email,
                                   payload |-> <<>>]]
                    /\ Answer(s, req[s],
                              responseHandler(200, TRUE, "Email verified successfully",
                                              sanitizeUser(user), None, "none", 0))
               ELSE /\ UNCHANGED mail
                    /\ Answer(s, req[s],
                              Caught(500, "An error occurred while verify email process",
                                     "Error sending welcome email", "none", 0))
    /\ UNCHANGED <<now, events, concurrent>>

\* ------------------------------------------------------- forgotPassword
WithResetToken_DayLong(user, resetToken, t) ==
    [user EXCEPT !.resetPasswordToken = resetToken,
                 !.resetPasswordExpiresAt = t + VerificationTTL]

WithResetToken_KeepsFirst(user, resetToken, t) ==
    IF user.resetPasswordToken # None THEN user
    ELSE [user EXCEPT !.resetPasswordToken = resetToken,
                      !.resetPasswordExpiresAt = t + ResetTTL]

WithResetToken(user, resetToken, t) ==
    [user EXCEPT !.resetPasswordToken = resetToken,
                 !.resetPasswordExpiresAt = t + ResetTTL]

ForgotFind(s) ==
    \E email \in Emails \cup {None} :
      LET r == [IdleReq EXCEPT !.op = "forgotPassword", !.email = email]
          id == FindByEmail(email)
          resetToken == ResetTokenOf(Len(hist.resets) + 1)
      IN /\ CanBegin(s)
         /\ IF id = 0
            THEN /\ Reply(s, r, Fail(400, "User not found"))
                 /\ UNCHANGED hist
            ELSE /\ Await(s, [r EXCEPT !.token = resetToken,
                                       !.doc = WithResetToken(users[id], resetToken, now)])
                 /\ hist' = [hist EXCEPT !.resets = Append(@, 0)]
         /\ UNCHANGED <<users, now, mail, concurrent>>

ForgotSave(s) ==
    /\ Saving(s, "forgotPassword")
    /\ \E sent \in BOOLEAN :
         LET user == req[s].doc
         IN /\ users' = [users EXCEPT
                           ![user._id].resetPasswordToken = user.resetPasswordToken,
                           ![user._id].resetPasswordExpiresAt =
                               user.resetPasswordExpiresAt]
            /\ IF sent
               THEN /\ mail' = [mail EXCEPT ![s] =
                                  [kind |-> "passwordReset", to |-> user.email,
                                   payload |-> ResetURL(user.resetPasswordToken)]]
                    /\ Answer(s, req[s],
                              responseHandler(200, TRUE,
                                              "Password reset link sent to your email",
                                              NoData, None, "none", 0))
               ELSE /\ UNCHANGED mail
                    /\ Answer(s, req[s],
                              Caught(400, "An error occurred in forgotPassword",
                                     "Error sending password reset email", "none", 0))
    /\ UNCHANGED <<now, events, concurrent, hist>>

\* -------------------------------------------------------- resetPassword
ResetFind(s) ==
    \E token \in PresentedTokens, password \in Passwords \cup {None} :
      LET r == [IdleReq EXCEPT !.op = "resetPassword", !.token = token,
                               !.password = password]
          id == FindByResetToken(token, now)
      IN /\ CanBegin(s)
         /\ IF id = 0
            THEN Reply(s, r, Fail(400, "Invalid or expired reset token"))
            ELSE Await(s, [r EXCEPT !.doc = users[id]])
         /\ UNCHANGED <<users, now, mail, concurrent, hist>>

WithNewPassword_KeepsToken(user, password) ==
    [user EXCEPT !.password = Hash(password)]

WithNewPassword_KeepsExpiry(user, password) ==
    [user EXCEPT !.password = Hash(password), !.resetPasswordToken = None]

WithNewPassword_Kept(user, password) ==
    [user EXCEPT !.resetPasswordToken = None, !.resetPasswordExpiresAt = NoDate]

WithNewPassword(user, password) ==
    [user EXCEPT !.password = Hash(password),
                 !.resetPasswordToken = None,
                 !.resetPasswordExpiresAt = NoDate]

ResetSave(s) ==
    /\ Saving(s, "resetPassword")
    /\ \E sent \in BOOLEAN :
         LET r == req[s]
             id == r.doc._id
             user == WithNewPassword(r.doc, r.password)
             n == TokenIndex(r.token)
         IN IF r.password = None
            THEN /\ Answer(s, r, Caught(400, "An error occurred in resetPassword",
                                        "Illegal arguments: undefined, string",
                                        "none", 0))
                 /\ UNCHANGED <<users, mail, hist>>
            ELSE /\ users' = [users EXCEPT
                                ![id].password = user.password,
                                ![id].resetPasswordToken = user.resetPasswordToken,
                                ![id].resetPasswordExpiresAt =
                                    user.resetPasswordExpiresAt]
                 /\ hist' = [hist EXCEPT !.plain[id] = r.password,
                                         !.oldPlain[id] = hist.plain[id],
                                         !.resets[n] = @ + 1]
                 /\ IF sent
                    THEN /\ mail' = [mail EXCEPT ![s] =
                                       [kind |-> "resetSuccess", to |-> user.email,
                                        payload |-> <<>>]]
                         /\ Answer(s, [r EXCEPT !.doc = user],
                                   responseHandler(200, TRUE, "Password reset successful",
                                                   NoData, None, "none", 0))
                    ELSE /\ UNCHANGED mail
                         /\ Answer(s, [r EXCEPT !.doc = user],
                                   Caught(400, "An error occurred in resetPassword",
                                          "Error sending password reset email",
                                          "none", 0))
    /\ UNCHANGED <<now, events, concurrent>>

\* ------------------------------------------------------- the environment
\* The client has read the response; the slot is free again.
Close(s) ==
    /\ pc[s] = "done"
    /\ pc' = [pc EXCEPT ![s] = "idle"]
    /\ req' = [req EXCEPT ![s] = IdleReq]
    /\ resp' = [resp EXCEPT ![s] = NoResp]
    /\ mail' = [mail EXCEPT ![s] = NoMail]
    /\ UNCHANGED <<users, now, events, concurrent, hist>>

\* Time passes, by the life of a reset token or of a verification token.
Tick ==
    \E d \in TickSteps :
      /\ events < Budget
      /\ NoneUnread
      /\ now' = now + d
      /\ events' = events + 1
      /\ UNCHANGED <<users, pc, req, resp, mail, concurrent, hist>>

\* -------------------------------------------------------- specifications
Init ==
    /\ users = <<>>
    /\ now = 0
    /\ events = 0
    /\ pc = [s \in Slots |-> "idle"]
    /\ req = [s \in Slots |-> IdleReq]
    /\ resp = [s \in Slots |-> NoResp]
    /\ mail = [s \in Slots |-> NoMail]
    /\ hist = NoHist
    /\ concurrent = FALSE

\* The store after signup and forgotPassword of one user at time 0: she holds
\* a verification code and a reset token, both still valid.
SeedUser ==
    [NoDoc EXCEPT !._id = 1, !.username = "ada", !.email = "a@x.com",
                  !.password = Hash("pw1"),
                  !.verificationToken = ToString(100000),
                  !.verificationTokenExpiresAt = VerificationTTL,
                  !.resetPasswordToken = ResetTokenOf(1),
                  !.resetPasswordExpiresAt = ResetTTL]

SeedHist == [issuedCode |-> <<ToString(100000)>>, verifies |-> <<0>>,
             plain |-> <<"pw1">>, oldPlain |-> <<None>>, resets |-> <<0>>]

ConcInit ==
    /\ users = <<SeedUser>>
    /\ now = 0
    /\ events = 0
    /\ pc = [s \in Slots |-> "idle"]
    /\ req = [s \in Slots |-> IdleReq]
    /\ resp = [s \in Slots |-> NoResp]
    /\ mail = [s \in Slots |-> NoMail]
    /\ hist = SeedHist
    /\ concurrent = TRUE

Next ==
    \/ \E s \in Slots : SignupFind(s)
    \/ \E s \in Slots : SignupSave(s)
    \/ \E s \in Slots : LoginFind(s)
    \/ \E s \in Slots : LoginSave(s)
    \/ \E s \in Slots : Logout(s)
    \/ \E s \in Slots : VerifyFind(s)
    \/ \E s \in Slots : VerifySave(s)
    \/ \E s \in Slots : ForgotFind(s)
    \/ \E s \in Slots : ForgotSave(s)
    \/ \E s \in Slots : ResetFind(s)
    \/ \E s \in Slots : ResetSave(s)
    \/ \E s \in Slots : NotFound(s)
    \/ \E s \in Slots : Close(s)
    \/ Tick

\* One request at a time.
Spec == Init /\ [][Next]_vars

\* Requests interleaved at the store operations they await.
ConcSpec == ConcInit /\ [][Next]_vars

\* =============================================================== claims
Done(s, op) == pc[s] = "done" /\ req[s].op = op

\* The step in which slot s takes in a request for op.
Begins(s, op) == pc[s] = "idle" /\ pc'[s] # "idle" /\ req'[s].op = op

\* The step in which slot s makes the write of op and answers.
Commits(s, op) == pc[s] = "save" /\ req[s].op = op /\ pc'[s] = "done"

SensitiveFields ==
    {"password", "verificationToken", "verificationTokenExpiresAt",
     "resetPasswordToken", "resetPasswordExpiresAt"}

\* C1: the user object in the data of a successful signup, login or
\* verifyEmail response holds neither the password nor any token field.
C1_NoSecretsInResponse ==
    \A s \in Slots :
      (/\ pc[s] = "done"
       /\ req[s].op \in {"signup", "login", "verifyEmail"}
       /\ resp[s].success)
      => DOMAIN resp[s].data \cap SensitiveFields = {}

VerifyTokenError == Fail(400, "Invalid or expired verification code")

\* C2: after a verifyEmail write for a user, that user is verified and holds
\* neither verification field, from then on; no user's code is consumed
\* twice, the code a successful verifyEmail consumes is the one signup issued
\* to that user, and a verifyEmail presenting a code of which every issue has
\* been consumed fails with the token error.
C2_CodeConsumedOnce ==
    [][/\ \A id \in 1..Len(users') :
            /\ hist'.verifies[id] <= 1
            /\ hist'.verifies[id] = 1 =>
                 /\ users'[id].isVerified
                 /\ users'[id].verificationToken = None
                 /\ users'[id].verificationTokenExpiresAt = NoDate
       /\ \A s \in Slots :
            /\ (Commits(s, "verifyEmail") /\ resp'[s].success) =>
                 /\ hist.issuedCode[req[s].doc._id] = req[s].code
                 /\ hist.verifies[req[s].doc._id] = 0
            /\ (/\ Begins(s, "verifyEmail")
                /\ req'[s].shape = "nested"
                /\ \A id \in Ids : hist.issuedCode[id] = req'[s].code
                                     => hist.verifies[id] >= 1)
               => pc'[s] = "done" /\ resp'[s] = VerifyTokenError
      ]_vars

\* A verifyEmail was answered with the token error for a code that an
\* earlier verifyEmail had consumed.
C2_Witness ==
    \E s \in Slots :
      /\ Done(s, "verifyEmail")
      /\ req[s].shape = "nested"
      /\ resp[s] = VerifyTokenError
      /\ \E id \in Ids : hist.issuedCode[id] = req[s].code /\ hist.verifies[id] = 1

AuthError == Fail(400, "Invalid credentials")

ResetTokenError == Fail(400, "Invalid or expired reset token")

\* C3: a resetPassword that succeeds with password p stores a hash that p
\* matches and the replaced password (when different) does not, and clears
\* the reset token; login with a user's email goes through exactly when the
\* password is the one in force, and otherwise fails with the credentials
\* error, and once through is answered 200 unless the store refuses the
\* write of lastLogin; a resetPassword presenting a token already used for a
\* write fails with the token error.
C3_ResetReplacesPassword ==
    [][\A s \in Slots :
         /\ (Commits(s, "resetPassword") /\ resp'[s].success) =>
              LET id == req[s].doc._id
                  p == req[s].password
                  old == hist.plain[id]
              IN /\ Compare(p, users'[id].password)
                 /\ p # old => ~Compare(old, users'[id].password)
                 /\ users'[id].resetPasswordToken = None
                 /\ users'[id].resetPasswordExpiresAt = NoDate
         /\ (Begins(s, "login") /\ req'[s].shape # "missing") =>
              \A id \in Ids :
                users[id].email = req'[s].email =>
                  IF req'[s].password = hist.plain[id]
                  THEN pc'[s] = "save"
                  ELSE pc'[s] = "done" /\ resp'[s] = AuthError
         /\ Commits(s, "login") =>
              \/ resp'[s].success /\ resp'[s].status = 200
              \/ resp'[s].error = "save failed"
         /\ (/\ Begins(s, "resetPassword")
             /\ req'[s].token \in IssuedTokens
             /\ hist.resets[TokenIndex(req'[s].token)] >= 1)
            => pc'[s] = "done" /\ resp'[s] = ResetTokenError
      ]_vars

\* A login with the new password succeeded after a reset that changed it.
C3_Witness ==
    \E s \in Slots :
      /\ Done(s, "login")
      /\ resp[s].success
      /\ LET id == req[s].doc._id
         IN /\ hist.oldPlain[id] # None
            /\ hist.oldPlain[id] # hist.plain[id]
            /\ req[s].password = hist.plain[id]

\* A login with the replaced password failed after such a reset.
C3_OldPasswordRefused ==
    \E s \in Slots :
      /\ Done(s, "login")
      /\ resp[s] = AuthError
      /\ \E id \in Ids : /\ users[id].email = req[s].email
                         /\ hist.oldPlain[id] = req[s].password
                         /\ hist.oldPlain[id] # hist.plain[id]

HoldsVerification(code) ==
    \E id \in Ids : /\ users[id].verificationToken = code
                    /\ now < users[id].verificationTokenExpiresAt

HoldsReset(token) ==
    \E id \in Ids : /\ users[id].resetPasswordToken = token
                    /\ now < users[id].resetPasswordExpiresAt

\* C4: verifyEmail (resetPassword) goes on to its write only if some user
\* holds exactly the presented verification (reset) token and the time is
\* strictly before its expiry; otherwise, the time equal to the expiry
\* included, it answers 400 with the one token error of that handler and the
\* store is unchanged.  A success is answered only from the write.
C4_TokenAcceptance ==
    [][\A s \in Slots :
         /\ (Begins(s, "verifyEmail") /\ req'[s].shape # "missing") =>
              /\ pc'[s] = "save" => HoldsVerification(req'[s].code)
              /\ ~HoldsVerification(req'[s].code) =>
                   /\ pc'[s] = "done"
                   /\ resp'[s] = VerifyTokenError
                   /\ users' = users
         /\ Begins(s, "resetPassword") =>
              /\ pc'[s] = "save" => HoldsReset(req'[s].token)
              /\ ~HoldsReset(req'[s].token) =>
                   /\ pc'[s] = "done"
                   /\ resp'[s] = ResetTokenError
                   /\ users' = users
         /\ (/\ pc[s] # "done"
             /\ pc'[s] = "done"
             /\ req'[s].op \in {"verifyEmail", "resetPassword"}
             /\ resp'[s].success)
            => pc[s] = "save"
      ]_vars

\* A verifyEmail presenting a stored code at the very time of its expiry was
\* answered with the token error.
C4_Witness ==
    \E s \in Slots :
      /\ Done(s, "verifyEmail")
      /\ resp[s] = VerifyTokenError
      /\ \E id \in Ids : /\ users[id].verificationToken = req[s].code
                         /\ users[id].verificationTokenExpiresAt = now

\* C5: a login whose email no user has and a login whose password does not
\* match get one and the same response, 400 "Invalid credentials", with no
\* cookie, and leave the store (lastLogin included) as it was.
C5_UniformLoginFailure ==
    [][\A s \in Slots :
         (Begins(s, "login") /\ req'[s].shape # "missing") =>
           LET unknown == \A id \in Ids : users[id].email # req'[s].email
               wrong == \E id \in Ids : /\ users[id].email = req'[s].email
                                        /\ hist.plain[id] # req'[s].password
           IN (unknown \/ wrong) =>
                /\ pc'[s] = "done"
                /\ resp'[s] = AuthError
                /\ resp'[s].cookie = "none"
                /\ users' = users
                /\ mail' = mail
      ]_vars

\* A login with the email of a user and another password than hers was
\* refused.
C5_Witness ==
    \E s \in Slots :
      /\ Done(s, "login")
      /\ resp[s] = AuthError
      /\ \E id \in Ids : /\ users[id].email = req[s].email
                         /\ hist.plain[id] # req[s].password

\* A login with an email no user has was refused.
C5_UnknownEmailRefused ==
    \E s \in Slots :
      /\ Done(s, "login")
      /\ resp[s] = AuthError
      /\ Len(users) > 0
      /\ \A id \in Ids : users[id].email # req[s].email

ConflictError == Fail(400, "User already exists")

\* C6: a signup with all fields present and the email of an existing user
\* is answered 400 "User already exists"; no user is created or changed, no
\* cookie is set and no email is sent.
C6_DuplicateSignupRefused ==
    [][\A s \in Slots :
         (/\ Begins(s, "signup")
          /\ req'[s].shape # "missing"
          /\ \E id \in Ids : users[id].email = req'[s].email)
         => /\ pc'[s] = "done"
            /\ resp'[s] = ConflictError
            /\ resp'[s].cookie = "none"
            /\ users' = users
            /\ mail' = mail
      ]_vars

C6_Witness ==
    \E s \in Slots :
      /\ Done(s, "signup")
      /\ resp[s] = ConflictError
      /\ \E id \in Ids : users[id].email = req[s].email

\* C7: in every state of the store, whatever requests have interleaved, no
\* two user records have the same email.
C7_EmailUnique ==
    \A i \in Ids : \A j \in Ids : users[i].email = users[j].email => i = j

\* Two signups with one email both passed the lookup; the second insert was
\* refused.
C7_Witness ==
    \E s \in Slots :
      /\ Done(s, "signup")
      /\ resp[s].error = "E11000 duplicate key error"
      /\ \E id \in Ids : users[id].email = req[s].email

\* C8: in every state of the store, every user holds a verification token
\* exactly when she holds its expiry, and a reset token exactly when she
\* holds its expiry.
C8_TokenPairs ==
    \A id \in Ids :
      /\ users[id].verificationToken # None
           <=> users[id].verificationTokenExpiresAt # NoDate
      /\ users[id].resetPasswordToken # None
           <=> users[id].resetPasswordExpiresAt # NoDate

\* A user whose verification pair a verifyEmail has cleared, holding a reset
\* pair, while another request is between its lookup and its write.
C8_Witness ==
    \E id \in Ids :
      /\ hist.verifies[id] >= 1
      /\ users[id].verificationToken = None
      /\ users[id].resetPasswordToken # None
      /\ \E s \in Slots : pc[s] = "save"

\* C9 as stated: when a handler has just answered, no user holds a
\* verification or reset token whose expiry is not in the future.
C9_ExpiredTokensCleared ==
    \A s \in Slots :
      pc[s] = "done" =>
        \A id \in Ids :
          /\ users[id].verificationToken # None
               => users[id].verificationTokenExpiresAt > now
          /\ users[id].resetPasswordToken # None
               => users[id].resetPasswordExpiresAt > now

\* C9 as amended: the write of verifyEmail (resetPassword) clears the token
\* and its expiry together, and a lookup accepts a token only while the time
\* is before the expiry stored with it.
C9_ConsumedTokensCleared ==
    [][\A s \in Slots :
         /\ Commits(s, "verifyEmail") =>
              /\ users'[req[s].doc._id].verificationToken = None
              /\ users'[req[s].doc._id].verificationTokenExpiresAt = NoDate
         /\ (Commits(s, "resetPassword") /\ req[s].password # None) =>
              /\ users'[req[s].doc._id].resetPasswordToken = None
              /\ users'[req[s].doc._id].resetPasswordExpiresAt = NoDate
         /\ (Begins(s, "verifyEmail") /\ pc'[s] = "save") =>
              users[req'[s].doc._id].verificationTokenExpiresAt > now
         /\ (Begins(s, "resetPassword") /\ pc'[s] = "save") =>
              users[req'[s].doc._id].resetPasswordExpiresAt > now
      ]_vars

\* A resetPassword presenting a stored token past its expiry was refused,
\* and the token is still in the record.
C9_Witness ==
    \E s \in Slots :
      /\ Done(s, "resetPassword")
      /\ resp[s] = ResetTokenError
      /\ \E id \in Ids : /\ users[id].resetPasswordToken = req[s].token
                         /\ users[id].resetPasswordExpiresAt < now

NotFoundError == Fail(400, "User not found")

\* C10: forgotPassword for the email of a user takes a token no request has
\* seen and an expiry one hour after the time of the request, and its write
\* stores exactly these; the response, success or error, holds no data and
\* its message and error are not the token; the token is in the link of the
\* password-reset email and the response is a success exactly when that
\* email went out.  For an email no user has, the answer is 400 "User not
\* found", no email is sent and nothing changes.
C10_ResetTokenOnlyByEmail ==
    [][\A s \in Slots :
         /\ Begins(s, "forgotPassword") =>
              IF \E id \in Ids : users[id].email = req'[s].email
              THEN /\ pc'[s] = "save"
                   /\ req'[s].token \notin IssuedTokens
                   /\ req'[s].doc.resetPasswordToken = req'[s].token
                   /\ req'[s].doc.resetPasswordExpiresAt = now + ResetTTL
                   /\ users' = users
              ELSE /\ pc'[s] = "done"
                   /\ resp'[s] = NotFoundError
                   /\ users' = users
                   /\ mail' = mail
         /\ Commits(s, "forgotPassword") =>
              LET id == req[s].doc._id
                  token == req[s].token
              IN /\ users'[id].resetPasswordToken = token
                 /\ users'[id].resetPasswordExpiresAt
                      = req[s].doc.resetPasswordExpiresAt
                 /\ DOMAIN resp'[s].data = {}
                 /\ resp'[s].message # token
                 /\ resp'[s].error # token
                 /\ resp'[s].cookie = "none"
                 /\ resp'[s].success <=> mail'[s].kind = "passwordReset"
                 /\ mail'[s].kind = "passwordReset" =>
                      /\ mail'[s].to = users[id].email
                      /\ mail'[s].payload = ResetURL(token)
      ]_vars

\* A forgotPassword succeeded: the token is stored, with its expiry, and is
\* in the link that was mailed.
C10_Witness ==
    \E s \in Slots :
      /\ Done(s, "forgotPassword")
      /\ resp[s].success
      /\ mail[s].payload = ResetURL(req[s].token)
      /\ users[req[s].doc._id].resetPasswordToken = req[s].token
      /\ users[req[s].doc._id].resetPasswordExpiresAt = now + ResetTTL

\* C11: a response that carries the cause of a caught exception in its
\* error field has status 500, whichever handler caught it.
C11_ExceptionsAre500 ==
    \A s \in Slots :
      (/\ pc[s] = "done"
       /\ req[s].op \in {"signup", "login", "verifyEmail", "forgotPassword",
                         "resetPassword"}
       /\ resp[s].error # None)
      => resp[s].status = 500

\* The request lacks an input its handler requires.
MissingInput(r) ==
    \/ r.op \in {"signup", "login", "verifyEmail"} /\ r.shape = "missing"
    \/ r.op = "forgotPassword" /\ r.email = None
    \/ r.op = "resetPassword" /\ r.password = None

\* C12: the answer to a request that lacks a required input has status 400,
\* and the step that answers it changes no user, sets no cookie and sends no
\* email.
C12_MissingInputIs400 ==
    [][\A s \in Slots :
         (pc[s] # "done" /\ pc'[s] = "done" /\ MissingInput(req'[s])) =>
           /\ resp'[s].status = 400
           /\ resp'[s].cookie = "none"
           /\ users' = users
           /\ mail'[s] = NoMail
      ]_vars

\* The endpoints the interface lists, as paths under /api/v1/auth.
EndpointTable == {"/signup", "/login", "/logout", "/verify-email",
                  "/forgot-password", "/reset-password/:token"}

\* C13: a request for a path of the endpoint table is taken by a handler:
\* only a request for a path outside the table is answered by the 404
\* "Route not found" fallback.
C13_TableIsRouted ==
    \A s \in Slots :
      (pc[s] = "done" /\ resp[s].status = 404) => req[s].path \notin EndpointTable

\* C14: with requests interleaved, a verifyEmail (resetPassword) whose token
\* some user still holds unexpired passes its lookup whatever other request
\* is between its own lookup and its write; each write answers success when
\* its email goes out; and the write of a resetPassword stores the hash of
\* its own password, so the hash in the store is that of the last write.
C14_LastSaveWins ==
    [][\A s \in Slots :
         /\ (/\ Begins(s, "verifyEmail")
             /\ req'[s].shape = "nested"
             /\ HoldsVerification(req'[s].code)) => pc'[s] = "save"
         /\ (Begins(s, "resetPassword") /\ HoldsReset(req'[s].token))
              => pc'[s] = "save"
         /\ Commits(s, "verifyEmail") =>
              /\ users'[req[s].doc._id].isVerified
              /\ resp'[s].success <=> mail'[s].kind = "welcome"
         /\ (Commits(s, "resetPassword") /\ req[s].password # None) =>
              /\ users'[req[s].doc._id].password = Hash(req[s].password)
              /\ resp'[s].success <=> mail'[s].kind = "resetSuccess"
      ]_vars

\* Two resetPassword requests made their writes with one token and
\* different passwords; the second was answered success and its hash is the
\* one in the store.
C14_Witness ==
    \E s \in Slots :
      /\ Done(s, "resetPassword")
      /\ resp[s].success
      /\ hist.resets[TokenIndex(req[s].token)] = 2
      /\ LET id == req[s].doc._id
         IN /\ hist.oldPlain[id] # req[s].password
            /\ Compare(req[s].password, users[id].password)
            /\ ~Compare(hist.oldPlain[id], users[id].password)

\* Two verifyEmail requests made their writes for one user with one code.
C14_VerifiedTwice ==
    \E s \in Slots :
      /\ Done(s, "verifyEmail")
      /\ resp[s].success
      /\ hist.verifies[req[s].doc._id] = 2

\* The causes the four send functions throw with.
EmailErrors == {"Error sending verification email", "Error sending welcome email",
                "Error sending password reset email"}

\* C15: when the email send of signup, verifyEmail, forgotPassword or
\* resetPassword throws, the handler answers an error and sends nothing,
\* and the store holds the mutation all the same: the user created, the
\* user verified with both verification fields cleared, the reset token
\* stored with its expiry, or the password replaced and the reset fields
\* cleared.
C15_SavedBeforeSent ==
    [][\A s \in Slots :
         (pc[s] = "save" /\ pc'[s] = "done" /\ resp'[s].error \in EmailErrors) =>
           LET r == req[s]
               id == r.doc._id
           IN /\ ~resp'[s].success
              /\ mail'[s] = NoMail
              /\ users' # users
              /\ r.op = "signup" =>
                   /\ Len(users') = Len(users) + 1
                   /\ users'[Len(users')].email = r.email
                   /\ Compare(r.password, users'[Len(users')].password)
              /\ r.op = "verifyEmail" =>
                   /\ users'[id].isVerified
                   /\ users'[id].verificationToken = None
                   /\ users'[id].verificationTokenExpiresAt = NoDate
              /\ r.op = "forgotPassword" =>
                   /\ users'[id].resetPasswordToken = r.token
                   /\ users'[id].resetPasswordExpiresAt
                        = r.doc.resetPasswordExpiresAt
              /\ r.op = "resetPassword" =>
                   /\ Compare(r.password, users'[id].password)
                   /\ users'[id].resetPasswordToken = None
                   /\ users'[id].resetPasswordExpiresAt = NoDate
      ]_vars

\* A verifyEmail was answered with an error because the welcome email
\* failed, and the user is verified, her code cleared.
C15_Witness ==
    \E s \in Slots :
      /\ Done(s, "verifyEmail")
      /\ ~resp[s].success
      /\ resp[s].error = "Error sending welcome email"
      /\ users[req[s].doc._id].isVerified
      /\ users[req[s].doc._id].verificationToken = None

\* C16: the write of forgotPassword puts its token in the place of the one
\* the user held, which no record holds afterwards; resetPassword goes on to
\* its write only with the token its user holds now; and a resetPassword
\* presenting an issued token that no record holds is answered with the
\* token error and changes nothing, whatever the time.
C16_OneResetToken ==
    [][\A s \in Slots :
         /\ Commits(s, "forgotPassword") =>
              LET id == req[s].doc._id
                  earlier == users[id].resetPasswordToken
              IN /\ users'[id].resetPasswordToken = req[s].token
                 /\ earlier # req[s].token
                 /\ earlier # None =>
                      \A i \in Ids : users'[i].resetPasswordToken # earlier
         /\ (Begins(s, "resetPassword") /\ pc'[s] = "save") =>
              users[req'[s].doc._id].resetPasswordToken = req'[s].token
         /\ (/\ Begins(s, "resetPassword")
             /\ req'[s].token \in IssuedTokens
             /\ \A i \in Ids : users[i].resetPasswordToken # req'[s].token)
            => /\ pc'[s] = "done"
               /\ resp'[s] = ResetTokenError
               /\ users' = users
      ]_vars

\* Less than an hour after the first token was issued, a resetPassword
\* presenting a token that was issued and never used was refused: a later
\* forgotPassword had overwritten it.
C16_Witness ==
    \E s \in Slots :
      /\ Done(s, "resetPassword")
      /\ resp[s] = ResetTokenError
      /\ now < ResetTTL
      /\ req[s].token \in IssuedTokens
      /\ hist.resets[TokenIndex(req[s].token)] = 0
      /\ \E id \in Ids :
           /\ users[id].resetPasswordToken \in IssuedTokens
           /\ TokenIndex(users[id].resetPasswordToken) > TokenIndex(req[s].token)

\* C17: a response that carries a newly issued session cookie reports
\* success.
C17_CookieOnlyOnSuccess ==
    \A s \in Slots :
      (pc[s] = "done" /\ resp[s].cookie = "jwt") => resp[s].success

\* C18: the write of a verifyEmail changes the record of one user only, and
\* that user is the one who presented the code her verification email
\* carried.
C18_VerifiesTheCaller ==
    [][\A s \in Slots :
         Commits(s, "verifyEmail") =>
           /\ \A i \in Ids : i # req[s].doc._id => users'[i] = users[i]
           /\ hist.issuedCode[req[s].doc._id] = req[s].code
           /\ req[s].doc._id = req[s].caller
      ]_vars

====
